---- MODULE Spec2Model ----
(***************************************************************************)
(* Model of src/app.py: a Bokeh dashboard whose handlers (analyze_stock,   *)
(* refresh_current, update_theme, export_to_csv) run to completion one at  *)
(* a time, and the indicator engine calculate_technical_indicators.        *)
(*                                                                         *)
(* Numbers.  A pandas float64 cell is modelled as a record: a fixed-point  *)
(* number (v counts units of 1/Scale) or one of the IEEE specials NaN and  *)
(* +-Inf.  Division follows numpy: x/0 is +-Inf, 0/0 is NaN, nothing       *)
(* raises.  Rounding is to the fixed-point grid, not to binary64.          *)
(*                                                                         *)
(* Text.  A ticker is a sequence of one-character strings so that strip()  *)
(* and upper() are computed.  The "[HH:MM:SS] " prefix of a status line    *)
(* and the timestamp in an export file name are clock reads and are left   *)
(* out of the text.                                                        *)
(***************************************************************************)
EXTENDS Integers, Sequences, FiniteSets, TLC

VARIABLES
    current_theme,        \* app.py:139  global current_theme
    current_ticker,       \* app.py:473  global current_ticker
    current_data,         \* app.py:474  global current_data (None or a table)
    status_panel,         \* app.py:454  PreText: [text: lines, color]
    stats_display,        \* app.py:464  Div text
    dashboard_container,  \* app.py:467  column: its children list
    doc_theme,            \* app.py:481, 745  curdoc().theme
    controls_section,     \* app.py:492  controls_section.styles
    files,                \* CSV files written by export_to_csv
    raised,               \* exception that escaped the last handler, or "none"
    lastOp,               \* the last handler invocation and what it was given
    events,               \* number of handler invocations so far
    series,               \* Close values handed to the indicator engine
    result                \* what calculate_technical_indicators returned

vars == << current_theme, current_ticker, current_data, status_panel,
           stats_display, dashboard_container, doc_theme, controls_section,
           files, raised, lastOp, events, series, result >>

appVars == << current_theme, current_ticker, current_data, status_panel,
              stats_display, dashboard_container, doc_theme, controls_section,
              files, raised, lastOp, events >>

engineVars == << series, result >>

----------------------------------------------------------------------------
(* Bounds of the model *)

\* handler invocations explored from the initial state
MaxEvents == 2
\* longest table the provider returns to a handler
MaxRows == 2
\* longest series handed to the indicator engine on its own
MaxBars == 14
\* fixed-point units per 1.0
Scale == 1000
\* calls of update_status explored on the status log
MaxStatusCalls == 9

----------------------------------------------------------------------------
(* float64 cells *)

Num(v) == [k |-> "num", v |-> v]
NaN == [k |-> "nan", v |-> 0]
Inf(s) == [k |-> "inf", v |-> s]

IsNum(c) == c.k = "num"
IsNaN(c) == c.k = "nan"
Sign(v) == IF v > 0 THEN 1 ELSE IF v < 0 THEN -1 ELSE 0

FNeg(a) == IF a.k = "nan" THEN NaN ELSE [a EXCEPT !.v = -a.v]

FAdd(a, b) ==
    IF a.k = "nan" \/ b.k = "nan" THEN NaN
    ELSE IF a.k = "inf" /\ b.k = "inf" THEN (IF a.v = b.v THEN a ELSE NaN)
    ELSE IF a.k = "inf" THEN a
    ELSE IF b.k = "inf" THEN b
    ELSE Num(a.v + b.v)

FSub(a, b) == FAdd(a, FNeg(b))

\* numpy true division of two float64 cells
FDiv(a, b) ==
    IF a.k = "nan" \/ b.k = "nan" THEN NaN
    ELSE IF a.k = "inf" /\ b.k = "inf" THEN NaN
    ELSE IF a.k = "inf" THEN Inf(IF b.v < 0 THEN -a.v ELSE a.v)
    ELSE IF b.k = "inf" THEN Num(0)
    ELSE IF b.v = 0 THEN (IF a.v = 0 THEN NaN ELSE Inf(Sign(a.v)))
    ELSE Num((a.v * Scale) \div b.v)

\* multiplication of a cell by a small integer
FScale(a, m) == IF a.k = "num" THEN Num(a.v * m) ELSE a

\* a > b, a < b, a >= b on cells; any comparison with NaN is False
FGt(a, b) ==
    /\ a.k # "nan" /\ b.k # "nan"
    /\ IF a.k = "inf" THEN a.v = 1 /\ ~(b.k = "inf" /\ b.v = 1)
       ELSE IF b.k = "inf" THEN b.v = -1
       ELSE a.v > b.v
FLt(a, b) == FGt(b, a)
FGe(a, b) == a.k # "nan" /\ b.k # "nan" /\ ~FGt(b, a)

\* a column computed cell by cell, as a concrete list
Cells(f) == f \o << >>

RECURSIVE SumCells(_, _, _)
\* xs[lo] + ... + xs[hi] of numeric cells, as an integer
SumCells(xs, lo, hi) ==
    IF lo > hi THEN 0 ELSE xs[hi].v + SumCells(xs, lo, hi - 1)

\* floor of the square root
ISqrt(v) == CHOOSE r \in 0..v : r * r <= v /\ (r + 1) * (r + 1) > v

----------------------------------------------------------------------------
(* pandas Series operations used by the engine (xs is a sequence of cells) *)

\* Series.diff(): first entry NaN, then x[i] - x[i-1]
diff(xs) ==
    Cells([i \in 1..Len(xs) |-> IF i = 1 THEN NaN ELSE FSub(xs[i], xs[i - 1])])

\* delta.where(delta > 0, 0): keep where the condition holds, else 0
where_positive(xs) ==
    Cells([i \in 1..Len(xs) |-> IF FGt(xs[i], Num(0)) THEN xs[i] ELSE Num(0)])

\* delta.where(delta < 0, 0)
where_negative(xs) ==
    Cells([i \in 1..Len(xs) |-> IF FLt(xs[i], Num(0)) THEN xs[i] ELSE Num(0)])

neg(xs) == Cells([i \in 1..Len(xs) |-> FNeg(xs[i])])

WindowFull(xs, window, i) ==
    i >= window /\ \A j \in (i - window + 1)..i : IsNum(xs[j])

\* Series.rolling(window).mean(): min_periods = window
rolling_mean(xs, window) ==
    Cells([i \in 1..Len(xs) |->
        IF WindowFull(xs, window, i)
        THEN Num(SumCells(xs, i - window + 1, i) \div window)
        ELSE NaN])

RECURSIVE SumSqDev(_, _, _, _)
SumSqDev(xs, m, lo, hi) ==
    IF lo > hi THEN 0
    ELSE (xs[hi].v - m) * (xs[hi].v - m) + SumSqDev(xs, m, lo, hi - 1)

\* Series.rolling(window).std(): sample standard deviation (ddof = 1)
rolling_std(xs, window) ==
    Cells([i \in 1..Len(xs) |->
        IF WindowFull(xs, window, i) /\ window > 1
        THEN LET m == SumCells(xs, i - window + 1, i) \div window
             IN  Num(ISqrt(SumSqDev(xs, m, i - window + 1, i) \div (window - 1)))
        ELSE NaN])

RECURSIVE ewm_upto(_, _, _)
\* Series.ewm(span, adjust=False).mean(), entries 1..i:
\* y[1] = x[1], y[i] = (1 - a) y[i-1] + a x[i] with a = 2 / (span + 1)
ewm_upto(xs, span, i) ==
    IF i = 0 THEN << >>
    ELSE IF i = 1 THEN << xs[1] >>
    ELSE LET ys == ewm_upto(xs, span, i - 1)
             prev == ys[i - 1]
         IN  Append(ys, IF IsNum(prev) /\ IsNum(xs[i])
                        THEN Num(((span - 1) * prev.v + 2 * xs[i].v) \div (span + 1))
                        ELSE prev)

\* an exponential average that waits for span observations (min_periods=span)
ewm_mean_min_periods(xs, span) ==
    Cells([i \in 1..Len(xs) |->
             IF i < span THEN NaN ELSE ewm_upto(xs, span, Len(xs))[i]])

\* Series.ewm(span=span, adjust=False).mean()
ewm_mean(xs, span) == ewm_upto(xs, span, Len(xs))

\* elementwise a - b and a + b of two aligned columns
col_sub(a, b) == Cells([i \in 1..Len(a) |-> FSub(a[i], b[i])])
col_add(a, b) == Cells([i \in 1..Len(a) |-> FAdd(a[i], b[i])])
col_scale(a, m) == Cells([i \in 1..Len(a) |-> FScale(a[i], m)])

----------------------------------------------------------------------------
(* Exceptions: a raised exception is its type and str(e); NoExc: none.     *)

NoExc == [type |-> "none", str |-> << >>]
Exc(type, text) == [type |-> type, str |-> << text >>]
KeyError(key) == Exc("KeyError", key)

----------------------------------------------------------------------------
(* Tables (pandas DataFrame): n rows and a function from column label to   *)
(* its cells.  None is the Python None a handler starts with.              *)

None == [n |-> -1, col |-> << >>]

Columns(df) == DOMAIN df.col

\* DataFrame.empty: no rows or no columns
empty(df) == df.n = 0 \/ Columns(df) = {}

\* df[name] = cells for every name of `new`: existing columns are replaced
assign(df, new) ==
    [df EXCEPT !.col = [c \in Columns(df) \cup DOMAIN new |->
                           IF c \in DOMAIN new THEN new[c] ELSE df.col[c]]]

IndicatorColumns ==
    { "SMA_20", "SMA_50", "EMA_12", "EMA_26", "MACD", "MACD_Signal",
      "MACD_Histogram", "RSI", "BB_Middle", "BB_Upper", "BB_Lower" }

\* app.py:192  gain = (delta.where(delta > 0, 0)).rolling(window=14).mean()
rsi_gain(delta) == rolling_mean(where_positive(delta), 14)

\* the loss average without the sign change
rsi_loss_unnegated(delta) == rolling_mean(where_negative(delta), 14)

\* app.py:193  loss = (-delta.where(delta < 0, 0)).rolling(window=14).mean()
rsi_loss(delta) == rolling_mean(neg(where_negative(delta)), 14)

\* app.py:194-195  rs = gain / loss ; RSI = 100 - (100 / (1 + rs))
rsi_from(gain, loss) ==
    Cells([i \in 1..Len(gain) |->
        LET rs == FDiv(gain[i], loss[i])
        IN  FSub(Num(100 * Scale),
                 FDiv(Num(100 * Scale), FAdd(Num(Scale), rs)))])

\* app.py:191-195
rsi_column(close) ==
    LET delta == diff(close)
    IN  rsi_from(rsi_gain(delta), rsi_loss(delta))

\* app.py:179-201: the columns the engine adds, from the Close column
indicator_columns(close) ==
    LET sma20  == rolling_mean(close, 20)
        sma50  == rolling_mean(close, 50)
        ema12  == ewm_mean(close, 12)
        ema26  == ewm_mean(close, 26)
        macd   == col_sub(ema12, ema26)
        signal == ewm_mean(macd, 9)
        middle == rolling_mean(close, 20)
        bb_std == rolling_std(close, 20)
    IN  [ SMA_20 |-> sma20, SMA_50 |-> sma50,
          EMA_12 |-> ema12, EMA_26 |-> ema26,
          MACD |-> macd, MACD_Signal |-> signal,
          MACD_Histogram |-> col_sub(macd, signal),
          RSI |-> rsi_column(close),
          BB_Middle |-> middle,
          BB_Upper |-> col_add(middle, col_scale(bb_std, 2)),
          BB_Lower |-> col_sub(middle, col_scale(bb_std, 2)) ]

\* app.py:173-203.  exc is the exception the call raises ("none": it returns
\* df).  df['Close'] on a table without that column raises KeyError.
calculate_technical_indicators(df) ==
    IF df = None \/ empty(df) THEN [exc |-> NoExc, df |-> df]
    ELSE IF "Close" \notin Columns(df) THEN [exc |-> KeyError("'Close'"), df |-> df]
    ELSE [exc |-> NoExc, df |-> assign(df, indicator_columns(df.col["Close"]))]

----------------------------------------------------------------------------
(* Provider tables.  A bar is built from its Close price; the other fields *)
(* are fixed functions of it, so a table is determined by its Close list.  *)

\* prices a bar may close at, in price units
CloseValues == {1, 2}

Price(p) == Num(p * Scale)

\* the canonical table (after reset_index) over a list of Close prices
Frame(closes) ==
    LET n == Len(closes)
    IN  [ n |-> n,
          col |-> [ Date   |-> Cells([i \in 1..n |-> Num(i)]),
                    Open   |-> Cells([i \in 1..n |->
                                  Price(IF i = 1 THEN closes[1] ELSE closes[i - 1])]),
                    High   |-> Cells([i \in 1..n |-> Price(closes[i] + 1)]),
                    Low    |-> Cells([i \in 1..n |-> Price(closes[i])]),
                    Close  |-> Cells([i \in 1..n |-> Price(closes[i])]),
                    Volume |-> Cells([i \in 1..n |-> Num(100 * i)]) ] ]

----------------------------------------------------------------------------
(* Text *)

\* str.upper() on one character
upper_char(c) ==
    CASE c = "a" -> "A" [] c = "p" -> "P" [] c = "l" -> "L"
      [] c = "m" -> "M" [] c = "s" -> "S" [] c = "f" -> "F" [] c = "t" -> "T"
      [] OTHER -> c

\* str.upper()
upper(s) == Cells([i \in 1..Len(s) |-> upper_char(s[i])])

RECURSIVE lstrip(_)
lstrip(s) == IF s # << >> /\ Head(s) = " " THEN lstrip(Tail(s)) ELSE s

RECURSIVE rstrip(_)
rstrip(s) ==
    IF s # << >> /\ s[Len(s)] = " " THEN rstrip(SubSeq(s, 1, Len(s) - 1)) ELSE s

\* str.strip()
strip(s) == rstrip(lstrip(s))

AAPL == << "A", "A", "P", "L" >>
MSFT == << "M", "S", "F", "T" >>

\* what the user may have typed into ticker_input when a handler reads it
TickerInputs == { << " ", " " >>, AAPL, << " ", "m", "s", "f", "t", " " >> }

----------------------------------------------------------------------------
(* Themes *)

\* app.py:479
themes == << "light", "dark", "terminal" >>

\* app.py:142-167
THEME_COLORS ==
    [ light    |-> [ bg |-> "#ffffff", text |-> "#2c3e50", grid |-> "#f0f0f0",
                     up |-> "#2ecc71", down |-> "#e74c3c", widget_bg |-> "#f8f9fa" ],
      dark     |-> [ bg |-> "#1a1a2e", text |-> "#e0e0e0", grid |-> "#2d3047",
                     up |-> "#27ae60", down |-> "#c0392b", widget_bg |-> "#2d3047" ],
      terminal |-> [ bg |-> "#0c0c0c", text |-> "#00ff00", grid |-> "#003300",
                     up |-> "#00ff00", down |-> "#ff0000", widget_bg |-> "#1a1a1a" ] ]

\* THEME_COLORS.get(theme, THEME_COLORS["light"])
theme_colors(theme) ==
    IF theme \in DOMAIN THEME_COLORS THEN THEME_COLORS[theme] ELSE THEME_COLORS["light"]

\* indicator_groups.labels, app.py:443
IndicatorLabels == { "SMA/EMA", "Bollinger Bands", "RSI", "MACD" }

\* the selections of indicator_groups the handlers are run with: the one the
\* page starts with (active=[0, 1], app.py:444), one with a single
\* oscillator and one with both
IndicatorChoices ==
    { {"SMA/EMA", "Bollinger Bands"}, {"RSI"}, {"SMA/EMA", "RSI", "MACD"} }

----------------------------------------------------------------------------
(* Status panel, app.py:454-461 and 499-530.  text is the list of lines    *)
(* (text.split('\n')); color is the "color" entry of its styles.           *)

Line(msg, arg) == [msg |-> msg, arg |-> arg]

StatusInit ==
    [text |-> << Line("Ready for analysis...", << >>) >>, color |-> "unset"]

\* lines[-7:]
last_seven(lines) == SubSeq(lines, Len(lines) - 6, Len(lines))

\* app.py:512-514
kept_lines(lines) == IF Len(lines) > 8 THEN last_seven(lines) ELSE lines

\* app.py:499-530: the panel after update_status(message, level)
update_status(panel, message, level) ==
    [ text  |-> Append(kept_lines(panel.text), message),
      color |-> IF level = "error" THEN "#dc3545"
                ELSE IF level = "success" THEN "#28a745"
                ELSE panel.color ]

ErrorMessages ==
    { "Please enter a valid ticker symbol", "No data found for ", "Error: " }

LastLine(panel) == panel.text[Len(panel.text)]

----------------------------------------------------------------------------
(* The data provider, yf.download (app.py:545).  A response either raises  *)
(* or is a table: an index with a name, and columns under labels that are  *)
(* plain field names or (field, ticker) tuples.                            *)

\* the Close prices of the provider's n-row table
ProviderCloses(n) == Cells([i \in 1..n |-> IF i % 2 = 1 THEN 2 ELSE 1])

PriceFields == { "Open", "High", "Low", "Close", "Volume" }

FullShape == [fields |-> PriceFields, index_name |-> "Date"]

\* (fields the table carries, name of its index, tuple labels or not)
ProviderShapes ==
    { [shape |-> FullShape, multi |-> FALSE],
      [shape |-> FullShape, multi |-> TRUE],
      [shape |-> [fields |-> PriceFields, index_name |-> "Datetime"], multi |-> FALSE],
      [shape |-> [fields |-> PriceFields \ {"Close"}, index_name |-> "Date"],
       multi |-> TRUE],
      [shape |-> [fields |-> PriceFields \ {"Volume"}, index_name |-> "Date"],
       multi |-> FALSE] }

\* what yf.download may do: raise, return no rows, or return 1..MaxRows rows
ProviderResponses ==
    { [raises |-> TRUE, n |-> 0, shape |-> FullShape, multi |-> FALSE],
      [raises |-> FALSE, n |-> 0, shape |-> FullShape, multi |-> TRUE] }
    \cup { [raises |-> FALSE, n |-> n, shape |-> s.shape, multi |-> s.multi] :
              n \in 1..MaxRows, s \in ProviderShapes }

Label(field, ticker, multi) ==
    [tuple |-> multi, name |-> field, ticker |-> IF multi THEN ticker ELSE << >>]

\* the table yf.download returns for a response that does not raise
download(resp, ticker) ==
    LET frame == Frame(ProviderCloses(resp.n))
    IN  [ n |-> resp.n,
          index_name |-> resp.shape.index_name,
          index |-> frame.col["Date"],
          col |-> [l \in { Label(f, ticker, resp.multi) : f \in resp.shape.fields } |->
                      frame.col[l.name]] ]

\* app.py:552  col[0] if isinstance(col, tuple) else col
flat_label(l) == l.name

\* app.py:552  df.columns = [...]
flatten_columns(raw) ==
    [raw EXCEPT !.col = [c \in { flat_label(l) : l \in DOMAIN raw.col } |->
                            raw.col[CHOOSE l \in DOMAIN raw.col : flat_label(l) = c]]]

\* app.py:553  df.reset_index(inplace=True): the index becomes a column
reset_index(raw) ==
    [ n |-> raw.n,
      col |-> [c \in DOMAIN raw.col \cup {raw.index_name} |->
                  IF c = raw.index_name THEN raw.index ELSE raw.col[c]] ]

\* how a response is classified in lastOp
ResponseKind(resp) ==
    IF resp.raises THEN "raise"
    ELSE IF resp.n = 0 THEN "empty"
    ELSE IF resp.shape.index_name # "Date" THEN "no_date"
    ELSE IF "Close" \notin resp.shape.fields THEN "no_close"
    ELSE IF "Volume" \notin resp.shape.fields THEN "no_volume"
    ELSE "full"

----------------------------------------------------------------------------
(* Chart composition, app.py:209-399 and 573-599.  A figure records what   *)
(* the toolkit is given: its colours, its x_range and the cells of each    *)
(* glyph.  "None" is the x_range argument left at its default.             *)

\* the cells a figure draws, by glyph
Glyphs(df, names) == [g \in names |-> df.col[g]]

\* app.py:209-306.  The title reads the global current_ticker.
create_main_chart(df, indicators, theme, ticker) ==
    LET colors == theme_colors(theme)
        overlays ==
            (IF "SMA/EMA" \in indicators THEN {"SMA_20", "EMA_12"} ELSE {})
            \cup
            (IF "Bollinger Bands" \in indicators
                /\ {"BB_Upper", "BB_Lower"} \subseteq Columns(df)
             THEN {"BB_Upper", "BB_Lower"} ELSE {})
    IN  [ kind |-> "main", title |-> ticker, height |-> 400,
          bg |-> colors.bg, text |-> colors.text, grid |-> colors.grid,
          x_range |-> "main.x_range",
          glyphs |-> Glyphs(df, {"Date", "Close"} \cup overlays) ]

\* app.py:314-316  df['Color'] = ...
volume_colors(df, colors) ==
    IF {"Open", "Close"} \subseteq Columns(df)
    THEN Cells([i \in 1..df.n |->
                  IF FGe(df.col["Close"][i], df.col["Open"][i])
                  THEN colors.up ELSE colors.down])
    ELSE Cells([i \in 1..df.n |-> colors.up])

\* app.py:319-345: the figure, once df carries the Color column
volume_figure(df, colors, x_range) ==
    IF "Volume" \notin Columns(df)
    THEN [exc |-> KeyError("'Volume'"), df |-> df, fig |-> << >>]
    ELSE [ exc |-> NoExc, df |-> df,
           fig |-> [ kind |-> "volume", title |-> << >>, height |-> 150,
                     bg |-> colors.bg, text |-> colors.text, grid |-> colors.grid,
                     x_range |-> IF x_range # "None" THEN x_range
                                 ELSE "volume.x_range",
                     glyphs |-> Glyphs(df, {"Date", "Volume", "Color"}) ] ]

\* app.py:308-345.  df is changed in place (the Color column) before the
\* bars are drawn; df['Volume'] raises KeyError on a table without Volume.
create_volume_chart(df, theme, x_range) ==
    volume_figure(assign(df, [Color |-> volume_colors(df, theme_colors(theme))]),
                  theme_colors(theme), x_range)

\* create_technical_chart that keeps the figure's own x_range
create_technical_chart_own_range(df, indicator_type, theme, x_range) ==
    [ kind |-> indicator_type, title |-> << >>, height |-> 200,
      bg |-> theme_colors(theme).bg, text |-> theme_colors(theme).text,
      grid |-> theme_colors(theme).grid,
      x_range |-> "technical.x_range",
      glyphs |-> Glyphs(df, IF indicator_type \in Columns(df)
                            THEN {"Date", indicator_type} ELSE {}) ]

\* app.py:347-399
create_technical_chart(df, indicator_type, theme, x_range) ==
    LET colors == theme_colors(theme)
        drawn ==
            IF indicator_type = "RSI" /\ "RSI" \in Columns(df)
            THEN {"Date", "RSI"}
            ELSE IF indicator_type = "MACD"
                    /\ {"MACD", "MACD_Signal", "MACD_Histogram"} \subseteq Columns(df)
            THEN {"Date", "MACD", "MACD_Signal", "MACD_Histogram"}
            ELSE {}
    IN  [ kind |-> indicator_type, title |-> << >>, height |-> 200,
          bg |-> colors.bg, text |-> colors.text, grid |-> colors.grid,
          x_range |-> IF x_range # "None" THEN x_range
                      ELSE "technical.x_range",
          glyphs |-> Glyphs(df, drawn) ]

\* app.py:588-592
tech_charts(df, active_labels, theme, x_range) ==
    (IF "RSI" \in active_labels
     THEN << create_technical_chart(df, "RSI", theme, x_range) >> ELSE << >>)
    \o
    (IF "MACD" \in active_labels
     THEN << create_technical_chart(df, "MACD", theme, x_range) >> ELSE << >>)

\* app.py:596  gridplot(all_charts, ncols=1, ...)
gridplot(all_charts) == [panels |-> all_charts, ncols |-> 1]

\* app.py:587-599, once the main and the volume chart are made
arrange_charts(active_labels, theme, main_chart, volume) ==
    IF volume.exc # NoExc
    THEN [exc |-> volume.exc, df |-> volume.df, children |-> << >>]
    ELSE [ exc |-> NoExc, df |-> volume.df,
           children |->
             << gridplot(<< main_chart, volume.fig >>
                         \o tech_charts(volume.df, active_labels, theme,
                                        main_chart.x_range)) >> ]

\* app.py:584-585, once the main chart is made
with_main_chart(df, active_labels, theme, main_chart) ==
    arrange_charts(active_labels, theme, main_chart,
                   create_volume_chart(df, theme, main_chart.x_range))

\* app.py:573-599.  children is dashboard_container.children afterwards
\* (cleared first, the grid appended last), df the table as the call leaves
\* it; exc is what the call raises.
create_dashboard(df, active_labels, theme, ticker) ==
    with_main_chart(df, active_labels, theme,
                    create_main_chart(df, active_labels, theme, ticker))

----------------------------------------------------------------------------
(* Statistics panel, app.py:601-678 *)

\* the format specs str.format accepts among those the f-string uses
ValidFormatSpecs == { ".2f", "+.2f", ",", ",.0f", ".1f" }

\* app.py:616-654: the replacement fields of the first f-string, in order,
\* each with its format spec (the text after the colon)
stats_fields ==
    << [value |-> "Close", spec |-> ".2f"],
       [value |-> "price_change", spec |-> "+.2f"],
       [value |-> "Low", spec |-> ".2f"],
       [value |-> "High", spec |-> ".2f"],
       [value |-> "Open", spec |-> ".2f"],
       [value |-> "Volume", spec |-> ","],
       [value |-> "Volume.mean", spec |-> ",.0f"],
       [value |-> "RSI",
        spec |-> ".1f if isinstance(latest.get('RSI'), (int, float)) else 'N/A'"] >>

\* app.py:609-612, in percent (fixed-point)
price_change(df) ==
    IF df.n > 1
    THEN LET last == df.col["Close"][df.n]
             prev == df.col["Close"][df.n - 1]
         IN  FScale(FDiv(FSub(last, prev), prev), 100)
    ELSE Num(0)

\* app.py:656-665
rsi_class(rsi) ==
    IF IsNaN(rsi) THEN "Neutral"
    ELSE IF FGt(rsi, Num(70 * Scale)) THEN "Overbought"
    ELSE IF FLt(rsi, Num(30 * Scale)) THEN "Oversold"
    ELSE "Neutral"

\* app.py:601-678: exc is what the call raises, text is stats_display.text
\* afterwards.  format(value, spec) raises ValueError on an invalid spec.
update_stats_display(df, ticker, theme, old_text) ==
    IF df = None \/ empty(df) THEN [exc |-> NoExc, text |-> old_text]
    ELSE IF \E i \in 1..Len(stats_fields) : stats_fields[i].spec \notin ValidFormatSpecs
    THEN [exc |-> Exc("ValueError", "Invalid format specifier"), text |-> old_text]
    ELSE [ exc |-> NoExc,
           text |-> << [ ticker |-> ticker,
                         bg |-> theme_colors(theme).widget_bg,
                         price |-> df.col["Close"][df.n],
                         change |-> price_change(df),
                         rsi |-> rsi_class(df.col["RSI"][df.n]) ] >> ]

----------------------------------------------------------------------------
(* Handlers.  One action is one handler invocation run to completion.      *)

\* an except clause that names ValueError only
catches_value_error_only(exc) == exc.type = "ValueError"

\* app.py:569  except Exception: every exception the body raises is caught
catches(exc) == TRUE

\* app.py:564-567: after create_dashboard returned
after_dashboard(st, ticker, stats) ==
    IF stats.exc # NoExc
    THEN [exc |-> stats.exc, st |-> st]
    ELSE [ exc |-> NoExc,
           st |-> [st EXCEPT
                     !.stats_display = stats.text,
                     !.status_panel =
                        update_status(@, Line("Analysis complete for ", ticker),
                                      "success")] ]

\* after_indicators with the ticker of the cache left as it was
after_indicators_keeping_ticker(st, ticker, theme, dash) ==
    IF dash.exc # NoExc
    THEN [ exc |-> dash.exc,
           st |-> [st EXCEPT !.current_data = dash.df,
                             !.dashboard_container = dash.children] ]
    ELSE after_dashboard([st EXCEPT !.current_data = dash.df,
                                    !.dashboard_container = dash.children],
                         ticker,
                         update_stats_display(dash.df, ticker, theme,
                                              st.stats_display))

\* app.py:558-567: current_data and df are one object, so what
\* create_dashboard does to df shows in current_data
after_indicators(st, ticker, theme, dash) ==
    IF dash.exc # NoExc
    THEN [ exc |-> dash.exc,
           st |-> [st EXCEPT !.current_data = dash.df,
                             !.current_ticker = ticker,
                             !.dashboard_container = dash.children] ]
    ELSE after_dashboard([st EXCEPT !.current_data = dash.df,
                                    !.current_ticker = ticker,
                                    !.dashboard_container = dash.children],
                         ticker,
                         update_stats_display(dash.df, ticker, theme,
                                              st.stats_display))

\* app.py:557-567
after_processing(st, ticker, active_labels, theme, ind) ==
    IF ind.exc # NoExc
    THEN [exc |-> ind.exc, st |-> st]
    ELSE after_indicators(st, ticker, theme,
                          create_dashboard(ind.df, active_labels, theme, ticker))

\* app.py:554-567: df["Date"] raises KeyError on a table without Date
after_reset_index(st, ticker, active_labels, theme, df) ==
    IF "Date" \notin Columns(df)
    THEN [exc |-> KeyError("'Date'"), st |-> st]
    ELSE after_processing(st, ticker, active_labels, theme,
                          calculate_technical_indicators(df))

\* after_download with the no-data branch also clearing the dashboard
after_download_clearing(st, ticker, active_labels, theme, raw) ==
    IF empty(raw)
    THEN [ exc |-> NoExc,
           st |-> [st EXCEPT !.dashboard_container = << >>,
                             !.status_panel =
                      update_status(@, Line("No data found for ", ticker), "error")] ]
    ELSE after_reset_index(st, ticker, active_labels, theme,
                           reset_index(flatten_columns(raw)))

\* app.py:547-567
after_download(st, ticker, active_labels, theme, raw) ==
    IF empty(raw)
    THEN [ exc |-> NoExc,
           st |-> [st EXCEPT !.status_panel =
                      update_status(@, Line("No data found for ", ticker), "error")] ]
    ELSE after_reset_index(st, ticker, active_labels, theme,
                           reset_index(flatten_columns(raw)))

\* app.py:543-567, the body of the try: st holds the globals and widgets
\* the body writes; exc is the exception that leaves the body
try_body(st, ticker, active_labels, resp, theme) ==
    IF resp.raises
    THEN [exc |-> Exc("Exception", "download failed"), st |-> st]
    ELSE after_download(st, ticker, active_labels, theme, download(resp, ticker))

\* app.py:569-571: what the except clause makes of the body's outcome
handle_exception(body) ==
    IF body.exc = NoExc THEN body
    ELSE IF catches(body.exc)
    THEN [ exc |-> NoExc,
           st |-> [body.st EXCEPT !.status_panel =
                      update_status(@, Line("Error: ", body.exc.str), "error")] ]
    ELSE body

\* app.py:541-571, for a ticker that is not blank
load_and_analyze(st, ticker, active_labels, resp, theme) ==
    handle_exception(
        try_body([st EXCEPT !.status_panel =
                     update_status(@, Line("Loading data for ", ticker), "info")],
                 ticker, active_labels, resp, theme))

\* app.py:532-571: the state after analyze_stock() and the exception that
\* escapes it
analyze_stock_result(st, raw_ticker, active_labels, resp, theme) ==
    IF upper(strip(raw_ticker)) = << >>
    THEN [ exc |-> NoExc,
           st |-> [st EXCEPT !.status_panel =
                      update_status(@, Line("Please enter a valid ticker symbol",
                                            << >>), "error")] ]
    ELSE load_and_analyze(st, upper(strip(raw_ticker)), active_labels, resp, theme)

Globals ==
    [ current_data |-> current_data, current_ticker |-> current_ticker,
      dashboard_container |-> dashboard_container,
      stats_display |-> stats_display, status_panel |-> status_panel ]

InputKind(raw_ticker, resp) ==
    IF upper(strip(raw_ticker)) = << >> THEN "blank" ELSE ResponseKind(resp)

\* app.py:532-571 (run_analysis.on_click, app.py:692)
analyze_stock(raw_ticker, active_labels, resp) ==
    \E r \in { analyze_stock_result(Globals, raw_ticker, active_labels, resp,
                                    current_theme) } :
        /\ current_data' = r.st.current_data
        /\ current_ticker' = r.st.current_ticker
        /\ dashboard_container' = r.st.dashboard_container
        /\ stats_display' = r.st.stats_display
        /\ status_panel' = r.st.status_panel
        /\ raised' = r.exc
        /\ lastOp' = [handler |-> "analyze_stock",
                      input |-> InputKind(raw_ticker, resp)]
        /\ UNCHANGED << current_theme, doc_theme, controls_section, files >>

AnalyzeStock ==
    /\ events < MaxEvents
    /\ \E raw_ticker \in TickerInputs, active_labels \in IndicatorChoices,
          resp \in ProviderResponses :
         analyze_stock(raw_ticker, active_labels, resp)
    /\ events' = events + 1
    /\ UNCHANGED engineVars

\* app.py:686-688 (refresh_data.on_click, app.py:694)
RefreshCurrent ==
    /\ events < MaxEvents
    /\ IF current_ticker # << >>
       THEN \E raw_ticker \in TickerInputs, active_labels \in IndicatorChoices,
               resp \in ProviderResponses :
              analyze_stock(raw_ticker, active_labels, resp)
       ELSE /\ raised' = NoExc
            /\ lastOp' = [handler |-> "refresh_current", input |-> "-"]
            /\ UNCHANGED << current_data, current_ticker, dashboard_container,
                            stats_display, status_panel, current_theme, doc_theme,
                            controls_section, files >>
    /\ events' = events + 1
    /\ UNCHANGED engineVars

\* str.capitalize() of a theme name
capitalize(name) ==
    CASE name = "light" -> "Light" [] name = "dark" -> "Dark"
      [] name = "terminal" -> "Terminal" [] OTHER -> name

\* app.py:487-497
update_widget_styles(theme) ==
    LET colors == theme_colors(theme)
    IN  [background_color |-> colors.widget_bg, border_right |-> colors.grid]

\* update_theme that also drops the cached table
update_theme_dropping_cache(new) ==
    /\ current_theme' = themes[new + 1]
    /\ doc_theme' = current_theme'
    /\ status_panel' = update_status(status_panel,
                          Line("Theme changed to ",
                               << capitalize(current_theme'), " Mode" >>), "info")
    /\ controls_section' = update_widget_styles(current_theme')
    /\ raised' = NoExc
    /\ lastOp' = [handler |-> "update_theme", input |-> "-"]
    /\ current_data' = None
    /\ UNCHANGED << current_ticker, dashboard_container, stats_display, files >>

\* app.py:476-485 (theme_selector.on_change('active', ...), app.py:691):
\* new is the index of the button now active
update_theme(new) ==
    /\ current_theme' = themes[new + 1]
    /\ doc_theme' = current_theme'
    /\ status_panel' = update_status(status_panel,
                          Line("Theme changed to ",
                               << capitalize(current_theme'), " Mode" >>), "info")
    /\ controls_section' = update_widget_styles(current_theme')
    /\ raised' = NoExc
    /\ lastOp' = [handler |-> "update_theme", input |-> "-"]
    /\ UNCHANGED << current_data, current_ticker, dashboard_container,
                    stats_display, files >>

\* the selector's active index only changes to another button
UpdateTheme ==
    /\ events < MaxEvents
    /\ \E new \in 0..(Len(themes) - 1) :
         /\ themes[new + 1] # current_theme
         /\ update_theme(new)
    /\ events' = events + 1
    /\ UNCHANGED engineVars

\* export_to_csv without the test of current_data
export_to_csv_unguarded(written) ==
    /\ files' = files \cup { [ticker |-> current_ticker, data |-> current_data] }
    /\ status_panel' = update_status(status_panel,
                          Line("Data exported to ",
                               current_ticker \o << ".csv" >>), "success")
    /\ raised' = NoExc

\* app.py:680-684 (export_data.on_click, app.py:693): written tells whether
\* DataFrame.to_csv could write the file; if not, OSError leaves the handler
export_to_csv(written) ==
    IF current_data # None
    THEN IF written
         THEN /\ files' = files \cup { [ticker |-> current_ticker,
                                         data |-> current_data] }
              /\ status_panel' = update_status(status_panel,
                                    Line("Data exported to ",
                                         current_ticker \o << ".csv" >>), "success")
              /\ raised' = NoExc
         ELSE /\ raised' = Exc("OSError", "cannot write file")
              /\ UNCHANGED << files, status_panel >>
    ELSE /\ raised' = NoExc
         /\ UNCHANGED << files, status_panel >>

ExportToCsv ==
    /\ events < MaxEvents
    /\ \E written \in BOOLEAN : export_to_csv(written)
    /\ lastOp' = [handler |-> "export_to_csv", input |-> "-"]
    /\ events' = events + 1
    /\ UNCHANGED << current_data, current_ticker, current_theme, doc_theme,
                    controls_section, dashboard_container, stats_display >>
    /\ UNCHANGED engineVars

----------------------------------------------------------------------------
(* The indicator engine on its own: a series grows bar by bar and the      *)
(* engine is applied to each series.                                       *)

EngineInit ==
    /\ series = << >>
    /\ result = calculate_technical_indicators(Frame(<< >>))

AppendBar ==
    /\ Len(series) < MaxBars
    /\ \E c \in CloseValues :
         /\ series' = Append(series, c)
         /\ result' = calculate_technical_indicators(Frame(series'))
    /\ UNCHANGED appVars

----------------------------------------------------------------------------
(* The application: handlers invoked one at a time by the UI host          *)

AppInit ==
    /\ current_theme = "light"
    /\ current_ticker = AAPL
    /\ current_data = None
    /\ status_panel = StatusInit
    /\ stats_display = << >>
    /\ dashboard_container = << >>
    /\ doc_theme = "light"
    /\ controls_section = [background_color |-> "unset", border_right |-> "unset"]
    /\ files = {}
    /\ raised = NoExc
    /\ lastOp = [handler |-> "init", input |-> "-"]
    /\ events = 0

Init == AppInit /\ EngineInit

Next == AnalyzeStock \/ RefreshCurrent \/ UpdateTheme \/ ExportToCsv

Spec == Init /\ [][Next]_vars

----------------------------------------------------------------------------
(* Chart composition on its own: create_dashboard applied to every         *)
(* selection of indicator groups, under every theme, for each table.       *)

ChartInit ==
    /\ current_theme \in { themes[i] : i \in 1..Len(themes) }
    /\ current_ticker \in { AAPL, MSFT }
    /\ \E n \in 1..MaxRows :
         current_data = calculate_technical_indicators(Frame(ProviderCloses(n))).df
    /\ status_panel = StatusInit
    /\ stats_display = << >>
    /\ dashboard_container = << >>
    /\ doc_theme = current_theme
    /\ controls_section = update_widget_styles(current_theme)
    /\ files = {}
    /\ raised = NoExc
    /\ lastOp = [handler |-> "init", input |-> {}]
    /\ events = 0
    /\ EngineInit

ComposeDashboard ==
    /\ events < MaxEvents
    /\ \E active_labels \in SUBSET IndicatorLabels :
         \E dash \in { create_dashboard(current_data, active_labels, current_theme,
                                        current_ticker) } :
             /\ dashboard_container' = dash.children
             /\ current_data' = dash.df
             /\ raised' = dash.exc
             /\ lastOp' = [handler |-> "create_dashboard", input |-> active_labels]
    /\ events' = events + 1
    /\ UNCHANGED << current_theme, current_ticker, status_panel, stats_display,
                    doc_theme, controls_section, files >>
    /\ UNCHANGED engineVars

NextChart == ComposeDashboard

SpecChart == ChartInit /\ [][NextChart]_vars

NextInd == AppendBar

SpecInd == Init /\ [][NextInd]_vars

----------------------------------------------------------------------------
(* The status log on its own: update_status called again and again on the  *)
(* panel the page starts with.                                             *)

\* calls of update_status the handlers make: app.py:541, 570 and 567
StatusCalls ==
    { [message |-> Line("Loading data for ", AAPL), level |-> "info"],
      [message |-> Line("Error: ", << "download failed" >>), level |-> "error"],
      [message |-> Line("Analysis complete for ", AAPL), level |-> "success"] }

\* app.py:499-530: one call of update_status(message, level)
UpdateStatus ==
    /\ events < MaxStatusCalls
    /\ \E call \in StatusCalls :
         /\ status_panel' = update_status(status_panel, call.message, call.level)
         /\ lastOp' = [handler |-> "update_status", input |-> call]
    /\ events' = events + 1
    /\ UNCHANGED << current_theme, current_ticker, current_data, stats_display,
                    dashboard_container, doc_theme, controls_section, files,
                    raised >>
    /\ UNCHANGED engineVars

NextStatus == UpdateStatus

SpecStatus == Init /\ [][NextStatus]_vars

----------------------------------------------------------------------------
(* Properties *)

AfterAnalyze(kind) == lastOp.handler = "analyze_stock" /\ lastOp.input = kind

EndsWithError(panel) ==
    LastLine(panel).msg \in ErrorMessages /\ panel.color = "#dc3545"

\* the panels of the grids in a children list
PanelsOf(children) ==
    UNION { { children[i].panels[j] : j \in 1..Len(children[i].panels) } :
              i \in 1..Len(children) }

\* the cells drawn by each panel of each grid
DrawnValues(children) ==
    [i \in 1..Len(children) |->
        [j \in 1..Len(children[i].panels) |-> children[i].panels[j].glyphs]]

\* C1 as stated: after analyze_stock met a provider answer of zero rows,
\* the status ends with the NoData error and dashboard_container has no
\* children, whatever it held before.
C1_NoDataClearsChart ==
    AfterAnalyze("empty") =>
        /\ EndsWithError(status_panel)
        /\ LastLine(status_panel).msg = "No data found for "
        /\ dashboard_container = << >>

\* C1 amended: an analyze_stock that meets zero rows ends with the NoData
\* error status, lets no exception out, renders no chart and leaves
\* dashboard_container as it was, so a chart of an earlier analysis stays.
C1_NoDataKeepsChart ==
    [][ (lastOp'.handler = "analyze_stock" /\ lastOp'.input = "empty") =>
          /\ EndsWithError(status_panel')
          /\ LastLine(status_panel').msg = "No data found for "
          /\ raised' = NoExc
          /\ dashboard_container' = dashboard_container
          /\ UNCHANGED << current_data, current_ticker >> ]_vars

\* C1 witness: zero rows arrived while a chart of an earlier analysis was on
\* display.
C1_Witness == AfterAnalyze("empty") /\ dashboard_container # << >>

\* C2: after update_theme, the chart on display is styled with the colours
\* of the new current_theme.
C2_ThemeChangeRestylesChart ==
    lastOp.handler = "update_theme" =>
        \A p \in PanelsOf(dashboard_container) :
            /\ p.bg = theme_colors(current_theme).bg
            /\ p.text = theme_colors(current_theme).text
            /\ p.grid = theme_colors(current_theme).grid

\* C3: an analyze_stock invocation that ends with an error status leaves
\* current_data and current_ticker unchanged.
C3_ErrorKeepsCache ==
    [][ (lastOp'.handler = "analyze_stock" /\ EndsWithError(status_panel')) =>
          UNCHANGED << current_data, current_ticker >> ]_vars

\* C4: for a blank ticker, a fetch that raises or returns zero rows, and
\* rows without Date or without Close, analyze_stock returns normally (no
\* exception escapes) with an error-level status line appended last.
C4_ErrorsAreAbsorbed ==
    \A kind \in { "blank", "raise", "empty", "no_date", "no_close" } :
        AfterAnalyze(kind) =>
            /\ raised = NoExc
            /\ EndsWithError(status_panel)
            /\ LastLine(status_panel).msg =
                  ( CASE kind = "blank" -> "Please enter a valid ticker symbol"
                      [] kind = "empty" -> "No data found for "
                      [] OTHER -> "Error: " )

\* C4 witness: a malformed table was absorbed by a handler invocation that
\* ran after an earlier invocation had ended with the NoData error.
C4_Witness ==
    /\ AfterAnalyze("no_close")
    /\ raised = NoExc
    /\ \E i \in 1..(Len(status_panel.text) - 1) :
          status_panel.text[i].msg = "No data found for "

\* C5: export_to_csv while current_data is None writes no file, raises
\* nothing and changes none of current_data, current_ticker, current_theme,
\* the status panel and dashboard_container.
C5_ExportWithoutDataIsNoOp ==
    [][ (lastOp'.handler = "export_to_csv" /\ current_data = None) =>
          /\ raised' = NoExc
          /\ UNCHANGED << files, current_data, current_ticker, current_theme,
                          status_panel, dashboard_container >> ]_vars

\* C5 witness: export_to_csv has run with nothing cached, after an analysis
\* that failed.
C5_Witness ==
    /\ lastOp.handler = "export_to_csv"
    /\ current_data = None
    /\ \E i \in 1..Len(status_panel.text) : status_panel.text[i].msg \in ErrorMessages

\* C6: update_theme changes neither current_data nor current_ticker, and
\* the cells of every drawn series are the same after it as before.
C6_ThemeChangeKeepsSeries ==
    [][ lastOp'.handler = "update_theme" =>
          /\ UNCHANGED << current_data, current_ticker >>
          /\ DrawnValues(dashboard_container') = DrawnValues(dashboard_container)
      ]_vars

\* C6 witness: the theme was switched with a table cached and a chart drawn.
C6_Witness ==
    /\ lastOp.handler = "update_theme"
    /\ current_data # None
    /\ dashboard_container # << >>

\* the panel kinds create_dashboard is to emit for a selection
ExpectedKinds(selected) ==
    << "main", "volume" >>
    \o (IF "RSI" \in selected THEN << "RSI" >> ELSE << >>)
    \o (IF "MACD" \in selected THEN << "MACD" >> ELSE << >>)

\* C7: for every selection of indicator groups create_dashboard leaves one
\* grid whose panels are main, volume, then RSI iff selected, then MACD iff
\* selected (2 + the number of selected oscillators), and every panel after
\* the main one uses the main panel's x_range.
C7_PanelList ==
    lastOp.handler = "create_dashboard" =>
        /\ Len(dashboard_container) = 1
        /\ LET panels == dashboard_container[1].panels
           IN  /\ [i \in 1..Len(panels) |-> panels[i].kind]
                     = ExpectedKinds(lastOp.input)
               /\ Len(panels) = 2 + Cardinality(lastOp.input \cap {"RSI", "MACD"})
               /\ \A i \in 2..Len(panels) : panels[i].x_range = panels[1].x_range

\* C7 witness: a dashboard composed with both oscillators selected.
C7_Witness ==
    /\ lastOp.handler = "create_dashboard"
    /\ lastOp.input = {"Bollinger Bands", "RSI", "MACD"}
    /\ Len(dashboard_container[1].panels) = 4

\* the engine returned a table with indicator columns
HasIndicators == result.exc = NoExc /\ IndicatorColumns \subseteq Columns(result.df)

\* C8: the RSI column is absent at each of the first 14 indices (0..13;
\* here 1..14).
C8_RsiFirst14Absent ==
    HasIndicators =>
        \A i \in 1..Len(series) : i <= 14 => IsNaN(result.df.col["RSI"][i])

\* C9: every RSI cell that is not absent is a number in [0, 100].
C9_RsiInRange ==
    HasIndicators =>
        \A i \in 1..Len(series) :
            LET rsi == result.df.col["RSI"][i]
            IN  ~IsNaN(rsi) => /\ IsNum(rsi)
                               /\ rsi.v >= 0
                               /\ rsi.v <= 100 * Scale

\* C9 witness: a window with gains and no losses, whose RSI is 100.
C9_Witness ==
    /\ HasIndicators
    /\ Len(series) = MaxBars
    /\ \A i \in 2..MaxBars : series[i] >= series[i - 1]
    /\ result.df.col["RSI"][MaxBars] = Num(100 * Scale)

RollingColumns == { "SMA_20", "SMA_50", "RSI", "BB_Middle", "BB_Upper", "BB_Lower" }

\* C10 as stated: the engine never raises, and for a series of 0 or 1 bars
\* every indicator column is present and all-absent.
C10_ShortSeriesAllAbsent ==
    /\ result.exc = NoExc
    /\ Len(series) < 2 =>
          /\ IndicatorColumns \subseteq Columns(result.df)
          /\ \A c \in IndicatorColumns : \A i \in 1..Len(series) :
                IsNaN(result.df.col[c][i])

\* entries 1..window-1 of a rolling column, where its window is not filled
\* (the RSI is absent at 1..13: its first difference counts as a zero)
UnfilledPrefix(c) ==
    CASE c = "SMA_50" -> 49
      [] c = "RSI" -> 13
      [] OTHER -> 19

\* C10 amended: the engine never raises on a series shorter than a window.
\* A series of 0 bars is returned as it came, with no indicator column.
\* For 1 bar or more every indicator column is present with one cell per
\* bar; the rolling columns (SMA, RSI, Bollinger) are absent over their
\* unfilled prefix, so all-absent for 1 bar; the exponential columns are
\* never absent: EMA_12 and EMA_26 start at the first Close, and MACD,
\* MACD_Signal and MACD_Histogram start at 0.
C10_ShortSeries ==
    /\ result.exc = NoExc
    /\ Len(series) = 0 => result.df = Frame(<< >>)
    /\ Len(series) >= 1 =>
          /\ IndicatorColumns \subseteq Columns(result.df)
          /\ \A c \in IndicatorColumns : Len(result.df.col[c]) = Len(series)
          /\ \A c \in RollingColumns : \A i \in 1..Len(series) :
                i <= UnfilledPrefix(c) => IsNaN(result.df.col[c][i])
          /\ \A c \in IndicatorColumns \ RollingColumns : \A i \in 1..Len(series) :
                IsNum(result.df.col[c][i])
          /\ result.df.col["EMA_12"][1] = Price(series[1])
          /\ result.df.col["EMA_26"][1] = Price(series[1])
          /\ \A c \in {"MACD", "MACD_Signal", "MACD_Histogram"} :
                result.df.col[c][1] = Num(0)

\* C10 witness: the engine applied to a series of one bar.
C10_Witness ==
    /\ Len(series) = 1
    /\ result.exc = NoExc
    /\ IsNaN(result.df.col["SMA_20"][1])
    /\ IsNum(result.df.col["EMA_12"][1])

\* C11: after analyze_stock was given a non-empty, well-formed table, the
\* statistics panel carries the new text and the last status line is the
\* success line "Analysis complete for <TICKER>", not an error.
C11_FullTableEndsWithSuccess ==
    AfterAnalyze("full") =>
        /\ raised = NoExc
        /\ current_data # None
        /\ dashboard_container # << >>
        /\ stats_display # << >>
        /\ LastLine(status_panel) = Line("Analysis complete for ", current_ticker)
        /\ status_panel.color = "#28a745"

\* C12: after any sequence of update_status calls the status panel holds at
\* most 8 lines, and its last line is the message of the most recent call.
C12_AtMostEightLines ==
    /\ Len(status_panel.text) <= 8
    /\ lastOp.handler = "update_status" =>
          LastLine(status_panel) = lastOp.input.message

\* the grid create_dashboard composes from a table and a ticker, for one of
\* the selections and one of the themes
ComposedFrom(grid, df, ticker) ==
    \E active_labels \in IndicatorChoices, i \in 1..Len(themes) :
        create_dashboard(df, active_labels, themes[i], ticker).children = << grid >>

\* C13: in every state reachable by analyze, refresh, theme-change and
\* export events dashboard_container holds at most one grid, and a grid it
\* holds was composed from the table cached in current_data and is titled
\* with current_ticker; so a file export writes is the data on display.
C13_GridShowsCache ==
    /\ Len(dashboard_container) <= 1
    /\ dashboard_container # << >> =>
          /\ current_data # None
          /\ ComposedFrom(dashboard_container[1], current_data, current_ticker)
          /\ dashboard_container[1].panels[1].title = current_ticker
          /\ \A p \in PanelsOf(dashboard_container) :
                p.glyphs = Glyphs(current_data, DOMAIN p.glyphs)

\* C13 witness: a grid for a ticker other than the initial one is on
\* display after a later theme change.
C13_Witness ==
    /\ lastOp.handler = "update_theme"
    /\ dashboard_container # << >>
    /\ current_ticker = MSFT
    /\ dashboard_container[1].panels[1].title = MSFT

====
